---- MODULE Spec2Model ----
(***************************************************************************)
(* A model of sbomfetch (src/sbomfetch.go, final revision, lines 424-1048):*)
(*   - the resolver  extractPackageMappingsFromData,                       *)
(*   - the download engine  downloadConcurrently / worker /                *)
(*     downloadFileToDir,                                                  *)
(*   - the extractor  extractArchive.                                      *)
(* Strings the code inspects character by character (download locations,  *)
(* file names, paths) are sequences of one-character strings; strings the  *)
(* code only compares for equality (SPDX identifiers, package names,       *)
(* relationship types) are TLA+ strings.                                   *)
(***************************************************************************)
EXTENDS Integers, Sequences, FiniteSets, TLC

VARIABLES
  \* ---- resolver (extractPackageMappingsFromData)
  rpc,            \* position in the resolver
  sbom,           \* the parsed document: [Packages, Relationships]
  packageMap,     \* SPDXID -> index into sbom.Packages
  sourceToAPKs,   \* source SPDXID -> list of APK package names
  urlToPackages,  \* download location -> list of APK package names
  earlier,        \* what an earlier run on the same document returned
  mappings,       \* []PackageMapping, the resolver's output / the engine's input
  \* ---- download engine (downloadConcurrently, worker, downloadFileToDir)
  concurrency,    \* the concurrency argument
  mainpc,         \* position of downloadConcurrently itself
  jobs,           \* the jobs channel's buffer
  jobsClosed,
  results,        \* the results channel's buffer
  resultsClosed,
  wg,             \* the WaitGroup counter
  wpc,            \* worker -> position
  wjob,           \* worker -> the job it holds
  werr,           \* worker -> the error of its current download
  sidx,           \* job-sender goroutine: index of the next mapping to enqueue
  spc,            \* job-sender goroutine: position
  cpc,            \* closer goroutine: position
  completed,
  successCount,
  failureCount,
  downloadedFiles,
  filePackages,
  disk,           \* archivesDir: file name -> [URL, state] of its last writer
  \* ---- history of the engine's run (read by the claims only)
  taken,          \* task index -> number of times a worker received it
  fetched,        \* task index -> what its downloads met and returned, in order
  reported,       \* task index -> number of results sent for it
  received,       \* the results the aggregator has taken, in order
  \* ---- extractor (extractArchive)
  extractDir,     \* the extraction root
  archiveFile,    \* the archive being extracted
  epc,            \* position in extractArchive
  fs,             \* what the extraction has put on disk: path -> [kind, link]
  nEntries,       \* tar headers read so far
  header,         \* the last tar header read
  handled,        \* what became of the last entry
  lastOps,        \* the paths the last entry created, wrote or linked
  abandoned,      \* entries of this archive the loop has left with continue
  \* ---- main after the downloads, and extractArchives
  xpc,            \* position in main and extractArchives
  xidx,           \* i of the range over archiveFiles
  xSuccessCount,  \* successCount of extractArchives
  xFailureCount,  \* failureCount of extractArchives
  began           \* the archives whose extraction has begun, in order

rvars == <<rpc, sbom, packageMap, sourceToAPKs, urlToPackages, earlier>>

chanvars == <<jobs, jobsClosed, results, resultsClosed, wg>>

workervars == <<wpc, wjob, werr, disk, taken, fetched, reported>>

helpervars == <<sidx, spc, cpc>>

mainvars ==
  <<mainpc, completed, successCount, failureCount, downloadedFiles, filePackages, received>>

dvars == <<concurrency, chanvars, workervars, helpervars, mainvars>>

evars ==
  <<extractDir, archiveFile, epc, fs, nEntries, header, handled, lastOps, abandoned>>

xvars == <<xpc, xidx, xSuccessCount, xFailureCount, began>>

vars == <<rvars, mappings, dvars, evars, xvars>>

(***************************************************************************)
(* Bounds of the model.                                                    *)
(***************************************************************************)
MaxPkgs == 3
MaxRels == 1
MaxTasks == 2
MaxConcurrency == 3
MaxEntries == 2

(***************************************************************************)
(* Strings as character sequences: the functions of package strings the    *)
(* code uses.                                                              *)
(***************************************************************************)
HasPrefix(s, p) == Len(s) >= Len(p) /\ SubSeq(s, 1, Len(p)) = p

HasSuffix(s, p) == Len(s) >= Len(p) /\ SubSeq(s, Len(s) - Len(p) + 1, Len(s)) = p

Contains(s, sub) ==
  \E i \in 0..(Len(s) - Len(sub)) : SubSeq(s, i + 1, i + Len(sub)) = sub

LowerChar(c) ==
  CASE c = "A" -> "a" [] c = "B" -> "b" [] c = "G" -> "g" [] c = "R" -> "r"
    [] c = "T" -> "t" [] c = "X" -> "x" [] c = "Z" -> "z" [] c = "N" -> "n"
    [] c = "O" -> "o" [] c = "S" -> "s" [] c = "E" -> "e" [] c = "I" -> "i"
    [] c = "H" -> "h" [] c = "P" -> "p"
    [] OTHER -> c

ToLower(s) == [i \in 1..Len(s) |-> LowerChar(s[i])]

S_http == <<"h", "t", "t", "p">>
S_NOASSERTION == <<"N", "O", "A", "S", "S", "E", "R", "T", "I", "O", "N">>
S_targz == <<".", "t", "a", "r", ".", "g", "z">>
S_tarxz == <<".", "t", "a", "r", ".", "x", "z">>
S_tgz == <<".", "t", "g", "z">>
S_tarbz2 == <<".", "t", "a", "r", ".", "b", "z", "2">>
S_httpScheme == <<"h", "t", "t", "p", ":", "/", "/">>
S_httpsScheme == <<"h", "t", "t", "p", "s", ":", "/", "/">>

TarballSuffixes == {S_targz, S_tgz, S_tarxz, S_tarbz2}

\* Download locations a document may carry.
L_empty == <<>>
L_ftp == <<"f", "t", "p", ":", "/", "/", "h", "/", "a", ".", "t", "g", "z">>
L_zip == <<"h", "t", "t", "p", ":", "/", "/", "h", "/", "a", ".", "z", "i", "p">>
L_tgz == <<"h", "t", "t", "p", ":", "/", "/", "h", "/", "a", ".", "t", "g", "z">>
L_upper == <<"h", "t", "t", "p", "s", ":", "/", "/", "h", "/", "A", ".", "T", "G", "Z">>
L_sig == <<"h", "t", "t", "p", ":", "/", "/", "h", "/", "a", ".", "t", "g", "z", ".", "s", "i", "g">>
L_otherhost == <<"h", "t", "t", "p", ":", "/", "/", "g", "/", "a", ".", "t", "g", "z">>
L_targz == <<"h", "t", "t", "p", ":", "/", "/", "h", "/", "b", ".", "t", "a", "r", ".", "g", "z">>

Locations ==
  {L_empty, S_NOASSERTION, L_ftp, L_zip, L_tgz, L_upper, L_sig, L_otherhost,
   L_targz}

\* The locations of the documents the grouping claims are checked on.
GroupLocations == {S_NOASSERTION, L_tgz, L_targz}

(***************************************************************************)
(* Go maps: functions whose domain grows; a missing key reads as the zero  *)
(* value.                                                                  *)
(***************************************************************************)
EmptyMap == [k \in {} |-> <<>>]

MapGet(m, k, zero) == IF k \in DOMAIN m THEN m[k] ELSE zero

MapPut(m, k, v) == [x \in (DOMAIN m) \cup {k} |-> IF x = k THEN v ELSE m[x]]

Range(s) == {s[i] : i \in 1..Len(s)}

SeqsUpTo(S, n) == UNION {[1..k -> S] : k \in 0..n}

(***************************************************************************)
(* The resolver.                                                           *)
(***************************************************************************)
\* Identifiers are unique within a document (SPDX): package i carries the
\* i-th identifier.  MissingId is an identifier no package carries.
SpdxId(i) == <<"SPDXRef", i>>

MissingId == <<"SPDXRef", 0>>

\* Display names by position: packages 1 and 3 share a name.
PkgName(i) == IF i % 2 = 1 THEN "libgcc" ELSE "glibc"

RelationshipTypes == {"GENERATED_FROM", "CONTAINS"}

PackagesOver(locs) ==
  UNION {[1..k -> locs] : k \in 0..MaxPkgs}

MkPackages(ls) ==
  [i \in 1..Len(ls) |->
     [SPDXID |-> SpdxId(i), Name |-> PkgName(i), DownloadLocation |-> ls[i]]]

RelationshipsOver(n, maxRels) ==
  SeqsUpTo([SpdxElementId : {SpdxId(i) : i \in 1..n} \cup {MissingId},
            RelationshipType : RelationshipTypes,
            RelatedSpdxElement : {SpdxId(i) : i \in 1..n} \cup {MissingId}],
           maxRels)

\* src/sbomfetch.go:751-757
isTarball(url) ==
  LET lowerURL == ToLower(url)
  IN Contains(lowerURL, S_targz) \/ Contains(lowerURL, S_tarxz)
       \/ Contains(lowerURL, S_tgz) \/ Contains(lowerURL, S_tarbz2)

\* lines 601-604: last write wins
RECURSIVE BuildPackageMap(_, _, _)
BuildPackageMap(pkgs, i, m) ==
  IF i > Len(pkgs) THEN m
  ELSE BuildPackageMap(pkgs, i + 1, MapPut(m, pkgs[i].SPDXID, i))

IsGeneratedFrom_AnyType(rel) == TRUE

\* line 611
IsGeneratedFrom(rel) == rel.RelationshipType = "GENERATED_FROM"

\* lines 610-627 (the validation warnings change no state)
RECURSIVE BuildSourceToAPKs(_, _, _, _, _)
BuildSourceToAPKs(rels, pkgs, pm, i, m) ==
  IF i > Len(rels) THEN m
  ELSE LET rel == rels[i]
       IN IF IsGeneratedFrom(rel) /\ rel.SpdxElementId \in DOMAIN pm
          THEN BuildSourceToAPKs(rels, pkgs, pm, i + 1,
                 MapPut(m, rel.RelatedSpdxElement,
                        Append(MapGet(m, rel.RelatedSpdxElement, <<>>),
                               pkgs[pm[rel.SpdxElementId]].Name)))
          ELSE BuildSourceToAPKs(rels, pkgs, pm, i + 1, m)

\* lines 641-645: the filter a package passes to become a candidate
PassesFilter(pkg) ==
  /\ pkg.DownloadLocation # <<>>
  /\ pkg.DownloadLocation # S_NOASSERTION
  /\ HasPrefix(pkg.DownloadLocation, S_http)
  /\ isTarball(pkg.DownloadLocation)

\* lines 646-649
ResolvedOwners(s2a, pkg) ==
  LET apkPackages == MapGet(s2a, pkg.SPDXID, <<>>)
  IN IF Len(apkPackages) = 0 THEN <<"unknown">> ELSE apkPackages

\* lines 639-654
RECURSIVE BuildUrlToPackages(_, _, _, _)
BuildUrlToPackages(pkgs, s2a, i, m) ==
  IF i > Len(pkgs) THEN m
  ELSE LET pkg == pkgs[i]
       IN IF PassesFilter(pkg)
          THEN BuildUrlToPackages(pkgs, s2a, i + 1,
                 MapPut(m, pkg.DownloadLocation,
                        MapGet(m, pkg.DownloadLocation, <<>>) \o ResolvedOwners(s2a, pkg)))
          ELSE BuildUrlToPackages(pkgs, s2a, i + 1, m)

\* lines 659-667: duplicates removed, first occurrence kept
RECURSIVE RemoveDuplicates(_, _, _)
RemoveDuplicates(packages, i, finalPackages) ==
  IF i > Len(packages) THEN finalPackages
  ELSE IF packages[i] \in Range(finalPackages)
       THEN RemoveDuplicates(packages, i + 1, finalPackages)
       ELSE RemoveDuplicates(packages, i + 1, Append(finalPackages, packages[i]))

UniquePackages_Kept(packages) == packages

UniquePackages(packages) == RemoveDuplicates(packages, 1, <<>>)

NoEarlierRun == [ran |-> FALSE, mappings |-> <<>>]

ResolverIdle ==
  /\ packageMap = EmptyMap
  /\ sourceToAPKs = EmptyMap
  /\ urlToPackages = EmptyMap
  /\ earlier = NoEarlierRun

\* The state after json.Unmarshal (lines 595-598) of a document whose
\* locations are drawn from locs.
ResolverInit(locs, maxRels) ==
  /\ rpc = "index"
  /\ \E ls \in PackagesOver(locs) :
       \E rels \in RelationshipsOver(Len(ls), maxRels) :
         sbom = [Packages |-> MkPackages(ls), Relationships |-> rels]
  /\ ResolverIdle
  /\ mappings = <<>>

\* lines 600-604
IndexPackages ==
  /\ rpc = "index"
  /\ packageMap' = BuildPackageMap(sbom.Packages, 1, EmptyMap)
  /\ rpc' = "relate"
  /\ UNCHANGED <<sbom, sourceToAPKs, urlToPackages, mappings, dvars, evars, xvars, earlier>>

\* lines 606-636
ScanRelationships ==
  /\ rpc = "relate"
  /\ sourceToAPKs' =
       BuildSourceToAPKs(sbom.Relationships, sbom.Packages, packageMap, 1, EmptyMap)
  /\ rpc' = "group"
  /\ UNCHANGED <<sbom, packageMap, urlToPackages, mappings, dvars, evars, xvars, earlier>>

\* lines 638-654
GroupByURL ==
  /\ rpc = "group"
  /\ urlToPackages' = BuildUrlToPackages(sbom.Packages, sourceToAPKs, 1, EmptyMap)
  /\ rpc' = "convert"
  /\ UNCHANGED <<sbom, packageMap, sourceToAPKs, mappings, dvars, evars, xvars, earlier>>

\* lines 658-672: one iteration of the range over urlToPackages; Go visits
\* the keys of a map in an unspecified order.
ConvertOne ==
  /\ rpc = "convert"
  /\ \E url \in (DOMAIN urlToPackages) \ {mappings[i].URL : i \in 1..Len(mappings)} :
       mappings' = Append(mappings,
                     [URL |-> url, APKPackages |-> UniquePackages(urlToPackages[url])])
  /\ UNCHANGED <<rpc, sbom, packageMap, sourceToAPKs, urlToPackages, dvars, evars, xvars, earlier>>

\* line 674
ResolverReturn ==
  /\ rpc = "convert"
  /\ DOMAIN urlToPackages = {mappings[i].URL : i \in 1..Len(mappings)}
  /\ rpc' = "returned"
  /\ UNCHANGED <<sbom, packageMap, sourceToAPKs, urlToPackages, mappings, dvars, evars, xvars, earlier>>

\* lines 594-598: the program is run again on the same document; what the
\* first run returned is kept for comparison.
RunAgain ==
  /\ rpc = "returned"
  /\ ~earlier.ran
  /\ earlier' = [ran |-> TRUE, mappings |-> mappings]
  /\ rpc' = "index"
  /\ packageMap' = EmptyMap
  /\ sourceToAPKs' = EmptyMap
  /\ urlToPackages' = EmptyMap
  /\ mappings' = <<>>
  /\ UNCHANGED <<sbom, dvars, evars, xvars>>

NextResolve ==
  \/ IndexPackages
  \/ ScanRelationships
  \/ GroupByURL
  \/ ConvertOne
  \/ ResolverReturn
  \/ RunAgain

(***************************************************************************)
(* The download engine.                                                    *)
(***************************************************************************)
S_slash == <<"/">>
S_dot == <<".">>
S_archives == <<"a", "r", "c", "h", "i", "v", "e", "s">>

\* strings.Split(s, "/")
RECURSIVE SplitSlash(_, _, _)
SplitSlash(s, i, cur) ==
  IF i > Len(s) THEN <<cur>>
  ELSE IF s[i] = "/" THEN <<cur>> \o SplitSlash(s, i + 1, <<>>)
       ELSE SplitSlash(s, i + 1, Append(cur, s[i]))

RECURSIVE TrimTrailingSlashes(_)
TrimTrailingSlashes(s) ==
  IF Len(s) > 0 /\ s[Len(s)] = "/" THEN TrimTrailingSlashes(SubSeq(s, 1, Len(s) - 1))
  ELSE s

\* path.Base
PathBase(p) ==
  IF p = <<>> THEN S_dot
  ELSE LET t == TrimTrailingSlashes(p)
           parts == SplitSlash(t, 1, <<>>)
       IN IF t = <<>> THEN S_slash ELSE parts[Len(parts)]

RECURSIVE LastNonEmpty(_, _, _)
LastNonEmpty(parts, i, dflt) ==
  IF i < 1 THEN dflt
  ELSE IF parts[i] # <<>> THEN parts[i] ELSE LastNonEmpty(parts, i - 1, dflt)

\* src/sbomfetch.go:787-805
getFilenameFromURL(url) ==
  LET base == PathBase(url)
      filename == IF base = S_dot \/ base = S_slash
                  THEN LET parts == SplitSlash(url, 1, <<>>)
                       IN LastNonEmpty(parts, Len(parts), base)
                  ELSE base
  IN IF ~isTarball(filename) THEN filename \o S_targz ELSE filename

\* The file names of the URLs of the model, derived once.
FilenameTable == [url \in Locations |-> getFilenameFromURL(url)]

FilenameOf(url) == FilenameTable[url]

\* filepath.Join(archivesDir, filename), lines 722 and 771
ArchivePath(filename) == S_archives \o S_slash \o filename

\* The URLs of the task lists handed to the engine: locations the resolver
\* accepts, pairwise distinct.
TaskPool == <<L_tgz, L_otherhost, L_targz, L_upper, L_sig>>

TaskLists ==
  {[i \in 1..n |-> [URL |-> TaskPool[i], APKPackages |-> <<PkgName(i)>>]] :
     n \in 0..MaxTasks}

StatusOK == 200

StatusCodes == {200, 204, 404}

NoError == "nil"

NoJob == [URL |-> <<>>, Index |-> 0, Total |-> 0, APKPackages |-> <<>>]

NumWorkers_OneMore(c) == c + 1

\* lines 683-686: the number of workers the loop starts
NumWorkers(c) == c

Workers == 1..NumWorkers(concurrency)

\* lines 678-679: make(chan T, len(mappings))
ChanCap(ms) == Len(ms)

\* A send on a buffered channel proceeds while the buffer has room.  With no
\* mappings the channels are unbuffered, and nothing is ever sent on them.
CanSend(ch, cap) == Len(ch) < cap

StatusAccepted_Below400(status) == status < 400

\* line 766
StatusAccepted(status) == status = StatusOK

\* lines 760-776 of downloadFileToDir: http.Get, the status test and
\* os.Create; NoError when the body copy is reached
OpenError(net, status, created) ==
  IF ~net THEN "failed to download"
  ELSE IF ~StatusAccepted(status) THEN "bad status"
  ELSE IF ~created THEN "failed to create file"
  ELSE NoError

\* lines 779-784
CopyError(copied) == IF ~copied THEN "failed to save file" ELSE NoError

In2xx(status) == status >= 200 /\ status < 300

\* What a download met and what downloadFileToDir returned for it: whether
\* the transport delivered a response, its status, and, for a response of the
\* 2xx class, whether the destination file could be created and whether the
\* body then reached it whole.
Met(net, status, created, copied, err) ==
  [net |-> net,
   status |-> IF net THEN status ELSE 0,
   created |-> net /\ In2xx(status) /\ created,
   copied |-> net /\ In2xx(status) /\ created /\ copied,
   err |-> err]

Pending == "pending"

EngineIdle ==
  /\ concurrency = 0
  /\ mainpc = "idle"
  /\ jobs = <<>> /\ jobsClosed = FALSE
  /\ results = <<>> /\ resultsClosed = FALSE
  /\ wg = 0
  /\ wpc = <<>> /\ wjob = <<>> /\ werr = <<>>
  /\ sidx = 0 /\ spc = "unstarted" /\ cpc = "unstarted"
  /\ completed = 0 /\ successCount = 0 /\ failureCount = 0
  /\ downloadedFiles = <<>>
  /\ filePackages = EmptyMap
  /\ disk = EmptyMap
  /\ taken = <<>> /\ fetched = <<>> /\ reported = <<>> /\ received = <<>>

\* downloadConcurrently is entered: lines 677-679, the channels are made.
EngineInit ==
  /\ mappings \in TaskLists
  /\ concurrency \in 1..MaxConcurrency
  /\ mainpc = "start"
  /\ jobs = <<>> /\ jobsClosed = FALSE
  /\ results = <<>> /\ resultsClosed = FALSE
  /\ wg = 0
  /\ wpc = <<>> /\ wjob = <<>> /\ werr = <<>>
  /\ sidx = 0 /\ spc = "unstarted" /\ cpc = "unstarted"
  /\ completed = 0 /\ successCount = 0 /\ failureCount = 0
  /\ downloadedFiles = <<>>
  /\ filePackages = EmptyMap
  /\ disk = EmptyMap
  /\ taken = [t \in 1..Len(mappings) |-> 0]
  /\ fetched = [t \in 1..Len(mappings) |-> <<>>]
  /\ reported = [t \in 1..Len(mappings) |-> 0]
  /\ received = <<>>

\* lines 681-686: wg.Add(1) and go worker(...), concurrency times
StartWorkers ==
  /\ mainpc = "start"
  /\ wg' = wg + NumWorkers(concurrency)
  /\ wpc' = [w \in Workers |-> "recv"]
  /\ wjob' = [w \in Workers |-> NoJob]
  /\ werr' = [w \in Workers |-> NoError]
  /\ mainpc' = "helpers"
  /\ UNCHANGED <<rvars, evars, xvars, mappings, concurrency, jobs, jobsClosed, results,
                 resultsClosed, disk, taken, fetched, reported, helpervars, completed,
                 successCount, failureCount, downloadedFiles, filePackages, received>>

\* lines 688-705: the job-sender and the closer goroutines are started
StartHelpers ==
  /\ mainpc = "helpers"
  /\ sidx' = 1
  /\ spc' = "sending"
  /\ cpc' = "waiting"
  /\ mainpc' = "collect"
  /\ UNCHANGED <<rvars, evars, xvars, mappings, concurrency, chanvars, workervars, completed,
                 successCount, failureCount, downloadedFiles, filePackages, received>>

\* lines 691-698: jobs <- DownloadJob{...}
SendJob ==
  /\ spc = "sending"
  /\ sidx <= Len(mappings)
  /\ ~jobsClosed
  /\ CanSend(jobs, ChanCap(mappings))
  /\ jobs' = Append(jobs, [URL |-> mappings[sidx].URL,
                           APKPackages |-> mappings[sidx].APKPackages,
                           Index |-> sidx,
                           Total |-> Len(mappings)])
  /\ sidx' = sidx + 1
  /\ UNCHANGED <<rvars, evars, xvars, mappings, concurrency, jobsClosed, results, resultsClosed,
                 wg, workervars, spc, cpc, mainvars>>

SenderLoopOver_Early(i, n) == TRUE

\* lines 691-698: the range over mappings has run through every index
SenderLoopOver(i, n) == i > n

\* line 690: defer close(jobs), when the loop is over
CloseJobs ==
  /\ spc = "sending"
  /\ SenderLoopOver(sidx, Len(mappings))
  /\ jobsClosed' = TRUE
  /\ spc' = "done"
  /\ UNCHANGED <<rvars, evars, xvars, mappings, concurrency, jobs, results, resultsClosed, wg,
                 workervars, sidx, cpc, mainvars>>

\* line 739: for job := range jobs, a job is received
TakeJob(w) ==
  /\ wpc[w] = "recv"
  /\ Len(jobs) > 0
  /\ wjob' = [wjob EXCEPT ![w] = Head(jobs)]
  /\ jobs' = Tail(jobs)
  /\ wpc' = [wpc EXCEPT ![w] = "open"]
  /\ taken' = [taken EXCEPT ![Head(jobs).Index] = @ + 1]
  /\ UNCHANGED <<rvars, evars, xvars, mappings, concurrency, jobsClosed, results, resultsClosed,
                 wg, werr, disk, fetched, reported, helpervars, mainvars>>

WgAfterDone_Forgotten(n) == n

\* line 738: defer wg.Done()
WgAfterDone(n) == n - 1

\* lines 738-739: the jobs channel is closed and drained; the worker returns
WorkerExit(w) ==
  /\ wpc[w] = "recv"
  /\ Len(jobs) = 0
  /\ jobsClosed
  /\ wpc' = [wpc EXCEPT ![w] = "exited"]
  /\ wg' = WgAfterDone(wg)
  /\ UNCHANGED <<rvars, evars, xvars, mappings, concurrency, jobs, jobsClosed, results,
                 resultsClosed, wjob, werr, disk, taken, fetched, reported,
                 helpervars, mainvars>>

\* lines 742, 760-777: http.Get, the status test, os.Create (which truncates).
\* The transport, the server and the disk decide what the download meets.
OpenDownload(w) ==
  /\ wpc[w] = "open"
  /\ \E net \in BOOLEAN, status \in StatusCodes, created \in BOOLEAN, copied \in BOOLEAN :
       LET err == OpenError(net, status, created)
           t == wjob[w].Index
           name == FilenameOf(wjob[w].URL)
       IN /\ fetched' = [fetched EXCEPT ![t] =
                           Append(@, Met(net, status, created, copied,
                                         IF err = NoError THEN Pending ELSE err))]
          /\ werr' = [werr EXCEPT ![w] = err]
          /\ wpc' = [wpc EXCEPT ![w] = IF err = NoError THEN "copy" ELSE "send"]
          /\ disk' = IF err = NoError
                     THEN MapPut(disk, name, [writer |-> wjob[w].URL, complete |-> FALSE])
                     ELSE disk
  /\ UNCHANGED <<rvars, evars, xvars, mappings, concurrency, chanvars, wjob, taken, reported,
                 helpervars, mainvars>>

\* lines 779-784: io.Copy and the return
CopyBody(w) ==
  /\ wpc[w] = "copy"
  /\ LET t == wjob[w].Index
         name == FilenameOf(wjob[w].URL)
         k == Len(fetched[t])
         copied == fetched[t][k].copied
     IN /\ fetched' = [fetched EXCEPT ![t][k].err = CopyError(copied)]
        /\ werr' = [werr EXCEPT ![w] = CopyError(copied)]
        /\ disk' = IF copied /\ disk[name].writer = wjob[w].URL
                   THEN MapPut(disk, name, [writer |-> wjob[w].URL, complete |-> TRUE])
                   ELSE disk
  /\ wpc' = [wpc EXCEPT ![w] = "send"]
  /\ UNCHANGED <<rvars, evars, xvars, mappings, concurrency, chanvars, wjob, taken, reported,
                 helpervars, mainvars>>

AfterResult_StopOnError(err) == IF err = NoError THEN "recv" ELSE "exited"

\* lines 739-748: whatever downloadFileToDir returned, the loop body ends with
\* the send and the range goes on to the next job
AfterResult(err) == "recv"

\* lines 743-747: results <- DownloadResult{...}
SendResult(w) ==
  /\ wpc[w] = "send"
  /\ ~resultsClosed
  /\ CanSend(results, ChanCap(mappings))
  /\ results' = Append(results, [URL |-> wjob[w].URL,
                                 APKPackages |-> wjob[w].APKPackages,
                                 Error |-> werr[w]])
  /\ reported' = [reported EXCEPT ![wjob[w].Index] = @ + 1]
  /\ wjob' = [wjob EXCEPT ![w] = NoJob]
  /\ werr' = [werr EXCEPT ![w] = NoError]
  /\ wpc' = [wpc EXCEPT ![w] = AfterResult(werr[w])]
  /\ UNCHANGED <<rvars, evars, xvars, mappings, concurrency, jobs, jobsClosed, resultsClosed,
                 wg, disk, taken, fetched, helpervars, mainvars>>

\* lines 743-747 when the results channel is already closed: the send panics
SendOnClosed(w) ==
  /\ wpc[w] = "send"
  /\ resultsClosed
  /\ wpc' = [wpc EXCEPT ![w] = "panic"]
  /\ UNCHANGED <<rvars, evars, xvars, mappings, concurrency, chanvars, wjob, werr, disk,
                 taken, fetched, reported, helpervars, mainvars>>

WaitReturns_AtOnce(n) == TRUE

\* line 703: wg.Wait() returns when the counter is zero
WaitReturns(n) == n = 0

\* lines 702-705
CloseResults ==
  /\ cpc = "waiting"
  /\ WaitReturns(wg)
  /\ resultsClosed' = TRUE
  /\ cpc' = "done"
  /\ UNCHANGED <<rvars, evars, xvars, mappings, concurrency, jobs, jobsClosed, results, wg,
                 workervars, sidx, spc, mainvars>>

IsFailure_Never(result) == FALSE

\* line 716
IsFailure(result) == result.Error # NoError

\* lines 714-727: one iteration of the range over results
Collect ==
  /\ mainpc = "collect"
  /\ Len(results) > 0
  /\ LET result == Head(results)
         filename == FilenameOf(result.URL)
         filePath == ArchivePath(filename)
     IN /\ completed' = completed + 1
        /\ received' = Append(received, result)
        /\ IF IsFailure(result)
           THEN /\ failureCount' = failureCount + 1
                /\ UNCHANGED <<successCount, downloadedFiles, filePackages>>
           ELSE /\ successCount' = successCount + 1
                /\ downloadedFiles' = Append(downloadedFiles, filePath)
                /\ filePackages' = MapPut(filePackages, filePath, result.APKPackages)
                /\ UNCHANGED failureCount
  /\ results' = Tail(results)
  /\ UNCHANGED <<rvars, evars, xvars, mappings, concurrency, jobs, jobsClosed, resultsClosed, wg,
                 workervars, helpervars, mainpc>>

\* lines 714 and 729-734: the results channel is closed and drained
ReturnSummary ==
  /\ mainpc = "collect"
  /\ Len(results) = 0
  /\ resultsClosed
  /\ mainpc' = "returned"
  /\ UNCHANGED <<rvars, evars, xvars, mappings, concurrency, chanvars, workervars, helpervars,
                 completed, successCount, failureCount, downloadedFiles,
                 filePackages, received>>

WorkerStep(w) ==
  \/ TakeJob(w)
  \/ WorkerExit(w)
  \/ OpenDownload(w)
  \/ CopyBody(w)
  \/ SendResult(w)
  \/ SendOnClosed(w)

MainStep == StartWorkers \/ StartHelpers \/ Collect \/ ReturnSummary

SenderStep == SendJob \/ CloseJobs

NextDownload ==
  \/ MainStep
  \/ SenderStep
  \/ CloseResults
  \/ \E w \in DOMAIN wpc : WorkerStep(w)

(***************************************************************************)
(* The extractor.                                                          *)
(***************************************************************************)
S_dotdot == <<".", ".">>

NonEmpty(seg) == seg # <<>>

\* The elements of a path: what lies between its separators.
Elements(path) == SelectSeq(SplitSlash(path, 1, <<>>), NonEmpty)

RECURSIVE JoinSlash(_)
JoinSlash(elems) ==
  IF elems = <<>> THEN <<>>
  ELSE IF Len(elems) = 1 THEN elems[1]
  ELSE elems[1] \o S_slash \o JoinSlash(Tail(elems))

\* filepath.Clean's pass over the elements: "." is dropped, ".." removes the
\* element before it, is dropped at the top of a rooted path and is kept at the
\* front of a relative one.
RECURSIVE CleanElements(_, _, _, _)
CleanElements(elems, i, rooted, out) ==
  IF i > Len(elems) THEN out
  ELSE IF elems[i] = S_dot THEN CleanElements(elems, i + 1, rooted, out)
  ELSE IF elems[i] = S_dotdot
       THEN IF Len(out) > 0 /\ out[Len(out)] # S_dotdot
            THEN CleanElements(elems, i + 1, rooted, SubSeq(out, 1, Len(out) - 1))
            ELSE IF rooted THEN CleanElements(elems, i + 1, rooted, out)
            ELSE CleanElements(elems, i + 1, rooted, Append(out, S_dotdot))
       ELSE CleanElements(elems, i + 1, rooted, Append(out, elems[i]))

IsRooted(path) == Len(path) > 0 /\ path[1] = "/"

\* filepath.Clean
Clean(path) ==
  LET out == CleanElements(Elements(path), 1, IsRooted(path), <<>>)
  IN IF IsRooted(path) THEN S_slash \o JoinSlash(out)
     ELSE IF out = <<>> THEN S_dot
     ELSE JoinSlash(out)

\* filepath.Join of two elements: empty elements are ignored, the rest is
\* joined with a separator and cleaned.
FilepathJoin(a, b) ==
  IF a = <<>> /\ b = <<>> THEN <<>>
  ELSE IF a = <<>> THEN Clean(b)
  ELSE IF b = <<>> THEN Clean(a)
  ELSE Clean(a \o S_slash \o b)

RECURSIVE LastSlash(_, _)
LastSlash(path, i) ==
  IF i < 1 THEN 0 ELSE IF path[i] = "/" THEN i ELSE LastSlash(path, i - 1)

\* filepath.Dir
FilepathDir(path) == Clean(SubSeq(path, 1, LastSlash(path, Len(path))))

\* line 879: filepath.Clean(extractDir) + string(os.PathSeparator)
ContainmentPrefix(dir) == Clean(dir) \o S_slash

\* line 879: the entry is skipped when this is false
PassesContainment(targetPath, dir) == HasPrefix(targetPath, ContainmentPrefix(dir))

\* Extraction roots main can pass (downloadDir, lines 511-526).
R_rel == <<"r">>
R_abs == <<"/", "r">>
R_slash == <<"r", "/">>
R_dot == <<".">>
R_dotdot == <<".", ".">>
R_root == <<"/">>

Roots == {R_rel, R_abs, R_slash, R_dot, R_dotdot, R_root}

\* Names a tar header may carry.
N_file == <<"a">>
N_nested == <<"a", "/", "b">>
N_self == <<".", "/">>
N_up == <<".", ".", "/", "x">>
N_upup == <<".", ".", "/", ".", ".", "/", "e">>
N_abs == <<"/", "e">>
N_innerup == <<"a", "/", ".", ".", "/", ".", ".", "/", "x">>
N_sibling == <<".", ".", "/", "r", "x">>
N_link == <<"l">>
N_thru == <<"l", "/", "p">>

EntryNames ==
  {N_file, N_nested, N_self, N_up, N_upup, N_abs, N_innerup, N_sibling, N_link, N_thru}

T_etc == <<"/", "e">>

\* tar.TypeDir, tar.TypeReg, tar.TypeSymlink, and tar.TypeLink for the types
\* the switch of line 884 has no case for.
TypeDir == "5"
TypeReg == "0"
TypeSymlink == "2"
TypeLink == "1"

Headers ==
  [Name : EntryNames, Typeflag : {TypeDir, TypeReg, TypeLink}, Linkname : {<<>>}]
    \cup [Name : EntryNames, Typeflag : {TypeSymlink}, Linkname : {T_etc}]

NoHeader == [Name |-> <<>>, Typeflag |-> "", Linkname |-> <<>>]

\* The entries of the archives extracted in a whole run of the program.
ProgramHeaders ==
  {[Name |-> N_file, Typeflag |-> TypeDir, Linkname |-> <<>>],
   [Name |-> N_nested, Typeflag |-> TypeReg, Linkname |-> <<>>],
   [Name |-> N_link, Typeflag |-> TypeSymlink, Linkname |-> T_etc],
   [Name |-> N_up, Typeflag |-> TypeReg, Linkname |-> <<>>],
   [Name |-> N_file, Typeflag |-> TypeLink, Linkname |-> <<>>]}

\* What tarReader.Next() may return: any header when extractArchive is run on
\* its own, a header of ProgramHeaders in a whole run.
HeadersRead == IF xpc = "idle" THEN Headers ELSE ProgramHeaders

\* The archives extractArchives is handed: the files of the download summary.
ArchiveFiles == {ArchivePath(FilenameOf(L_tgz)), ArchivePath(FilenameOf(L_upper))}

\* lines 841-861: the reader chosen from the lower-cased file name
ArchiveFormat(file) ==
  LET filename == ToLower(file)
  IN IF HasSuffix(filename, S_targz) \/ HasSuffix(filename, S_tgz) THEN "gzip"
     ELSE IF HasSuffix(filename, S_tarxz) THEN "xz"
     ELSE IF HasSuffix(filename, S_tarbz2) THEN "bzip2"
     ELSE "unsupported"

\* Directories that exist before the extraction: the root (main creates it,
\* line 523), the directories above it, "." and "/", and the chain of parents
\* "..", "../..", ...
IsPrefixSeq(a, b) == Len(a) <= Len(b) /\ SubSeq(b, 1, Len(a)) = a

PreExistingDir(path, dir) ==
  \/ path = Clean(dir)
  \/ path = S_dot
  \/ path = S_slash
  \/ \A i \in 1..Len(Elements(path)) : Elements(path)[i] = S_dotdot
  \/ /\ IsRooted(path) = IsRooted(Clean(dir))
     /\ IsPrefixSeq(Elements(path), Elements(Clean(dir)))

\* What os.Stat reports for the path: a symbolic link made by the extraction
\* points at a directory outside the tree the extraction tracks.
StatKind(f, path, dir) ==
  IF path \in DOMAIN f
  THEN IF f[path].kind = "file" THEN "file" ELSE "dir"
  ELSE IF PreExistingDir(path, dir) THEN "dir" ELSE "none"

\* os.MkdirAll: nothing to do for a directory, an error for a file, otherwise
\* the parent first and then the directory itself.  What was made stays made.
RECURSIVE MkdirAll(_, _, _)
MkdirAll(f, path, dir) ==
  IF StatKind(f, path, dir) = "dir" THEN [ok |-> TRUE, fs |-> f, made |-> {}]
  ELSE IF StatKind(f, path, dir) = "file" THEN [ok |-> FALSE, fs |-> f, made |-> {}]
  ELSE LET parent == MkdirAll(f, FilepathDir(path), dir)
       IN IF ~parent.ok THEN parent
          ELSE [ok |-> TRUE,
                fs |-> MapPut(parent.fs, path, [kind |-> "dir", link |-> <<>>]),
                made |-> parent.made \cup {path}]

\* extractArchives has not been called.
NotExtracting ==
  /\ xpc = "idle"
  /\ xidx = 0
  /\ xSuccessCount = 0
  /\ xFailureCount = 0
  /\ began = <<>>

ExtractorIdle ==
  /\ NotExtracting
  /\ extractDir = <<>>
  /\ archiveFile = <<>>
  /\ epc = "idle"
  /\ fs = EmptyMap
  /\ nEntries = 0
  /\ header = NoHeader
  /\ handled = "none"
  /\ lastOps = {}
  /\ abandoned = 0

\* extractArchive is entered (line 833).
ExtractorInit ==
  /\ NotExtracting
  /\ extractDir \in Roots
  /\ archiveFile \in ArchiveFiles
  /\ epc = "open"
  /\ fs = EmptyMap
  /\ nEntries = 0
  /\ header = NoHeader
  /\ handled = "none"
  /\ lastOps = {}
  /\ abandoned = 0

\* lines 834-864: the archive is opened and its decompressor chosen; a file
\* that cannot be opened or whose compressed stream is unreadable ends the call
OpenArchive ==
  /\ epc = "open"
  /\ \E readable \in BOOLEAN :
       epc' = IF readable /\ ArchiveFormat(archiveFile) # "unsupported"
              THEN "entries" ELSE "failed"
  /\ UNCHANGED <<rvars, mappings, dvars, xvars, extractDir, archiveFile, fs, nEntries,
                 header, handled, lastOps, abandoned>>

\* lines 867-870: tarReader.Next() returns io.EOF
EndOfArchive ==
  /\ epc = "entries"
  /\ epc' = "done"
  /\ header' = NoHeader
  /\ handled' = "none"
  /\ lastOps' = {}
  /\ UNCHANGED <<rvars, mappings, dvars, xvars, extractDir, archiveFile, fs, nEntries,
                 abandoned>>

\* lines 871-873: tarReader.Next() returns another error
CorruptHeader ==
  /\ epc = "entries"
  /\ epc' = "failed"
  /\ header' = NoHeader
  /\ handled' = "none"
  /\ lastOps' = {}
  /\ UNCHANGED <<rvars, mappings, dvars, xvars, extractDir, archiveFile, fs, nEntries,
                 abandoned>>

\* line 876, for every root and entry name of the model
TargetTable == [dir \in Roots, name \in EntryNames |-> FilepathJoin(dir, name)]

\* line 876
TargetPath(h) == TargetTable[extractDir, h.Name]

\* line 879, for every root and entry name of the model
ContainmentTable ==
  [dir \in Roots, name \in EntryNames |-> PassesContainment(TargetTable[dir, name], dir)]

\* lines 878-882: the entry goes on to the switch of line 884
Contained(h) == ContainmentTable[extractDir, h.Name]

ReadHeader(h) ==
  /\ epc = "entries"
  /\ nEntries < MaxEntries
  /\ nEntries' = nEntries + 1
  /\ header' = h
  /\ UNCHANGED <<rvars, mappings, dvars, xvars, extractDir, archiveFile>>

\* lines 878-882: the entry fails the containment test and is skipped
SkipEntry ==
  \E h \in HeadersRead :
    /\ ReadHeader(h)
    /\ ~Contained(h)
    /\ handled' = "skipped"
    /\ lastOps' = {}
    /\ abandoned' = abandoned + 1
    /\ UNCHANGED <<epc, fs>>

\* lines 885-889
ExtractDirectory ==
  \E h \in HeadersRead :
    /\ ReadHeader(h)
    /\ Contained(h)
    /\ h.Typeflag = TypeDir
    /\ LET made == MkdirAll(fs, TargetPath(h), extractDir)
       IN /\ fs' = made.fs
          /\ lastOps' = made.made
          /\ handled' = IF made.ok THEN "extracted" ELSE "error"
          /\ epc' = IF made.ok THEN epc ELSE "failed"
          /\ UNCHANGED abandoned

\* lines 890-905: the parent directories, the file (created or truncated), and
\* the copy of its contents from the tar stream, which may turn out corrupt
ExtractFile ==
  \E h \in HeadersRead, copied \in BOOLEAN :
    /\ ReadHeader(h)
    /\ Contained(h)
    /\ h.Typeflag = TypeReg
    /\ LET made == MkdirAll(fs, FilepathDir(TargetPath(h)), extractDir)
           opened == made.ok /\ StatKind(made.fs, TargetPath(h), extractDir) # "dir"
       IN /\ fs' = IF opened
                   THEN MapPut(made.fs, TargetPath(h), [kind |-> "file", link |-> <<>>])
                   ELSE made.fs
          /\ lastOps' = IF opened THEN made.made \cup {TargetPath(h)} ELSE made.made
          /\ handled' = IF opened /\ copied THEN "extracted" ELSE "error"
          /\ epc' = IF opened /\ copied THEN epc ELSE "failed"
          /\ UNCHANGED abandoned

AfterLinkError_Fatal(pc) == "failed"

\* lines 912-915: the failure is printed and the loop continues
AfterLinkError(pc) == pc

\* lines 906-915: the parent directories and the link; a link that cannot be
\* made is reported and the loop goes on
ExtractSymlink ==
  \E h \in HeadersRead :
    /\ ReadHeader(h)
    /\ Contained(h)
    /\ h.Typeflag = TypeSymlink
    /\ LET made == MkdirAll(fs, FilepathDir(TargetPath(h)), extractDir)
           linked == made.ok /\ StatKind(made.fs, TargetPath(h), extractDir) = "none"
       IN /\ fs' = IF linked
                   THEN MapPut(made.fs, TargetPath(h), [kind |-> "symlink", link |-> h.Linkname])
                   ELSE made.fs
          /\ lastOps' = IF linked THEN made.made \cup {TargetPath(h)} ELSE made.made
          /\ handled' = IF ~made.ok THEN "error" ELSE IF linked THEN "extracted" ELSE "linkfailed"
          /\ epc' = IF ~made.ok THEN "failed" ELSE IF linked THEN epc ELSE AfterLinkError(epc)
          /\ abandoned' = IF made.ok /\ ~linked THEN abandoned + 1 ELSE abandoned

\* line 884: a type the switch has no case for
IgnoreEntry ==
  \E h \in HeadersRead :
    /\ ReadHeader(h)
    /\ Contained(h)
    /\ h.Typeflag \notin {TypeDir, TypeReg, TypeSymlink}
    /\ handled' = "ignored"
    /\ lastOps' = {}
    /\ UNCHANGED <<epc, fs, abandoned>>

ExtractionMayBegin_WhileCollecting(pc) == pc \in {"collect", "returned"}

\* main, lines 575-580: extractArchives is called with the summary that
\* downloadConcurrently returned
ExtractionMayBegin(pc) == pc = "returned"

\* The download directory of a whole run; the archive paths of the summary
\* are kept relative to it.
ProgramRoots == {R_rel}

\* main line 580 and lines 807-809: extractArchives is entered
CallExtractArchives ==
  /\ xpc = "idle"
  /\ epc = "idle"
  /\ ExtractionMayBegin(mainpc)
  /\ extractDir' \in ProgramRoots
  /\ xpc' = "loop"
  /\ xidx' = 1
  /\ UNCHANGED <<rvars, mappings, dvars, archiveFile, epc, fs, nEntries, header,
                 handled, lastOps, abandoned, xSuccessCount, xFailureCount, began>>

\* lines 811-818: the next archive of archiveFiles; extractArchive is called
BeginArchive ==
  /\ xpc = "loop"
  /\ xidx <= Len(downloadedFiles)
  /\ archiveFile' = downloadedFiles[xidx]
  /\ began' = Append(began, downloadedFiles[xidx])
  /\ epc' = "open"
  /\ nEntries' = 0
  /\ header' = NoHeader
  /\ handled' = "none"
  /\ lastOps' = {}
  /\ abandoned' = 0
  /\ xpc' = "archive"
  /\ UNCHANGED <<rvars, mappings, dvars, extractDir, fs, xidx, xSuccessCount,
                 xFailureCount>>

\* lines 818-824: extractArchive has returned and is counted
ArchiveReturned ==
  /\ xpc = "archive"
  /\ epc \in {"done", "failed"}
  /\ xSuccessCount' = IF epc = "done" THEN xSuccessCount + 1 ELSE xSuccessCount
  /\ xFailureCount' = IF epc = "failed" THEN xFailureCount + 1 ELSE xFailureCount
  /\ xidx' = xidx + 1
  /\ epc' = "idle"
  /\ xpc' = "loop"
  /\ UNCHANGED <<rvars, mappings, dvars, extractDir, archiveFile, fs, nEntries, header,
                 handled, lastOps, abandoned, began>>

\* lines 827-830: the range is over; the summary is returned
ExtractArchivesReturn ==
  /\ xpc = "loop"
  /\ xidx > Len(downloadedFiles)
  /\ xpc' = "done"
  /\ UNCHANGED <<rvars, mappings, dvars, evars, xidx, xSuccessCount, xFailureCount,
                 began>>

NextExtract ==
  \/ OpenArchive
  \/ EndOfArchive
  \/ CorruptHeader
  \/ SkipEntry
  \/ ExtractDirectory
  \/ ExtractFile
  \/ ExtractSymlink
  \/ IgnoreEntry

(***************************************************************************)
(* Specifications.                                                         *)
(***************************************************************************)
\* Documents without relationships over every location, and documents with
\* relationships over the locations that exercise the grouping.
InitResolve ==
  /\ \/ ResolverInit(Locations, 0)
     \/ ResolverInit(GroupLocations, MaxRels)
  /\ EngineIdle
  /\ ExtractorIdle

SpecResolve == InitResolve /\ [][NextResolve]_vars

\* The resolver has returned its mappings; downloadConcurrently runs on them.
InitDownload ==
  /\ rpc = "returned"
  /\ sbom = [Packages |-> <<>>, Relationships |-> <<>>]
  /\ ResolverIdle
  /\ EngineInit
  /\ ExtractorIdle

SpecDownload == InitDownload /\ [][NextDownload]_vars

\* The Go scheduler runs every goroutine that can take a step, and every
\* download ends.
FairDownload ==
  /\ SpecDownload
  /\ WF_vars(MainStep)
  /\ WF_vars(SenderStep)
  /\ WF_vars(CloseResults)
  /\ \A w \in 1..(MaxConcurrency + 1) : WF_vars(w \in DOMAIN wpc /\ WorkerStep(w))

\* extractArchives calls extractArchive on a downloaded file (line 818).
InitExtract ==
  /\ rpc = "returned"
  /\ sbom = [Packages |-> <<>>, Relationships |-> <<>>]
  /\ ResolverIdle
  /\ mappings = <<>>
  /\ EngineIdle
  /\ ExtractorInit

SpecExtract == InitExtract /\ [][NextExtract]_vars

\* main from the call of downloadConcurrently (line 575) to the return of
\* extractArchives (line 580).
NextProgram ==
  \/ NextDownload
  \/ CallExtractArchives
  \/ BeginArchive
  \/ NextExtract
  \/ ArchiveReturned
  \/ ExtractArchivesReturn

SpecProgram == InitDownload /\ [][NextProgram]_vars

(***************************************************************************)
(* Claims about the resolver.                                              *)
(***************************************************************************)
TaskURLs == {mappings[i].URL : i \in 1..Len(mappings)}

PackageSet == Range(sbom.Packages)

\* The four tests of the documentation: non-empty, not NOASSERTION, an
\* HTTP/HTTPS scheme marker, and a path ending in a tarball suffix.
QualifiesAsDocumented(loc) ==
  /\ loc # <<>>
  /\ loc # S_NOASSERTION
  /\ (HasPrefix(loc, S_httpScheme) \/ HasPrefix(loc, S_httpsScheme))
  /\ \E suf \in TarballSuffixes : HasSuffix(ToLower(loc), suf)

\* C7: the resolver produces no task for a package whose location is empty,
\* NOASSERTION, without an HTTP/HTTPS scheme marker or not ending in a tarball
\* suffix; every task URL is the location of a package passing all four tests.
C7_OnlyDocumentedTarballs ==
  rpc = "returned" =>
    /\ \A pkg \in PackageSet :
         ~QualifiesAsDocumented(pkg.DownloadLocation)
           => pkg.DownloadLocation \notin TaskURLs
    /\ \A url \in TaskURLs :
         \E pkg \in PackageSet :
           pkg.DownloadLocation = url /\ QualifiesAsDocumented(pkg.DownloadLocation)

\* The display names of the packages of the document that a GENERATED_FROM
\* relationship derives from the package identified by id.
DerivedNames(id) ==
  {d.Name : d \in {p \in PackageSet :
      \E k \in 1..Len(sbom.Relationships) :
        /\ sbom.Relationships[k].RelationshipType = "GENERATED_FROM"
        /\ sbom.Relationships[k].SpdxElementId = p.SPDXID
        /\ sbom.Relationships[k].RelatedSpdxElement = id}}

OwnersOfPackage(pkg) ==
  IF DerivedNames(pkg.SPDXID) = {} THEN {"unknown"} ELSE DerivedNames(pkg.SPDXID)

\* The union of the owners of the packages the resolver's filter accepts
\* with exactly this download location.
OwnersOfURL(url) ==
  UNION {OwnersOfPackage(pkg) :
           pkg \in {q \in PackageSet : PassesFilter(q) /\ q.DownloadLocation = url}}

NoDuplicates(s) == \A i, j \in 1..Len(s) : i # j => s[i] # s[j]

\* C8: in the resolver's output the task URLs are pairwise distinct, every
\* owner list is duplicate-free and non-empty and, as a set, is the union of the
\* resolved owners (reverse-index names, or "unknown") of the packages the
\* filter accepts with exactly that download location.
C8_GroupedOwners ==
  rpc = "returned" =>
    /\ \A i, j \in 1..Len(mappings) : i # j => mappings[i].URL # mappings[j].URL
    /\ \A i \in 1..Len(mappings) :
         /\ NoDuplicates(mappings[i].APKPackages)
         /\ Len(mappings[i].APKPackages) > 0
         /\ Range(mappings[i].APKPackages) = OwnersOfURL(mappings[i].URL)
    /\ TaskURLs = {pkg.DownloadLocation : pkg \in {q \in PackageSet : PassesFilter(q)}}

\* Two packages share a location and contribute different owners to one task.
C8_Witness ==
  /\ rpc = "returned"
  /\ \E i \in 1..Len(mappings) :
       /\ Len(mappings[i].APKPackages) = 2
       /\ \E p, q \in PackageSet :
            /\ p # q
            /\ p.DownloadLocation = mappings[i].URL
            /\ q.DownloadLocation = mappings[i].URL
            /\ OwnersOfPackage(p) # OwnersOfPackage(q)

\* C9: once the relationships are scanned, the owners recorded for a source
\* package are exactly the names of the packages of the document that are the
\* spdxElementId of a GENERATED_FROM relationship pointing at it; other kinds
\* and unknown spdxElementIds add nothing, and the resolver still returns.
C9_OwnersFromGeneratedFrom ==
  /\ rpc \in {"group", "convert", "returned"} =>
       \A s \in PackageSet :
         Range(MapGet(sourceToAPKs, s.SPDXID, <<>>)) = DerivedNames(s.SPDXID)
  /\ rpc = "returned" =>
       \A i \in 1..Len(mappings) :
         \A s \in PackageSet :
           (PassesFilter(s) /\ s.DownloadLocation = mappings[i].URL)
             => \/ DerivedNames(s.SPDXID) \subseteq Range(mappings[i].APKPackages)
                     /\ DerivedNames(s.SPDXID) # {}
                \/ DerivedNames(s.SPDXID) = {}
                     /\ "unknown" \in Range(mappings[i].APKPackages)

\* A GENERATED_FROM relationship between two packages of the document has
\* named the owner of a returned task.
C9_Witness ==
  /\ rpc = "returned"
  /\ \E s \in PackageSet :
       /\ DerivedNames(s.SPDXID) # {}
       /\ \E i \in 1..Len(mappings) :
            /\ mappings[i].URL = s.DownloadLocation
            /\ Range(mappings[i].APKPackages) = DerivedNames(s.SPDXID)

\* C14: the resolver is deterministic, order included: a second run on the
\* same document returns the same sequence of tasks as the first, the same
\* URLs in the same positions with the same owner lists.
C14_SameSequenceEveryRun ==
  (rpc = "returned" /\ earlier.ran) => mappings = earlier.mappings

(***************************************************************************)
(* Claims about the download engine.                                       *)
(***************************************************************************)
Tasks == 1..Len(mappings)

ReceivedFor(t) == {k \in 1..Len(received) : received[k].URL = mappings[t].URL}

\* C1: when downloadConcurrently returns, the aggregator has received exactly
\* one DownloadResult for each submitted task: none lost, none doubled, and as
\* many results as mappings, whatever the interleaving and the concurrency.
C1_OneResultPerTask ==
  mainpc = "returned" =>
    /\ completed = Len(mappings)
    /\ Len(received) = Len(mappings)
    /\ \A t \in Tasks :
         /\ Cardinality(ReceivedFor(t)) = 1
         /\ taken[t] = 1
         /\ reported[t] = 1

\* The engine has returned with several tasks and more workers than tasks.
C1_Witness ==
  /\ mainpc = "returned"
  /\ Len(mappings) >= 2
  /\ concurrency > Len(mappings)
  /\ Len(received) = Len(mappings)

Terminated ==
  /\ mainpc = "returned"
  /\ jobsClosed
  /\ resultsClosed
  /\ \A w \in DOMAIN wpc : wpc[w] = "exited"
  /\ spc = "done"
  /\ cpc = "done"

\* C3: for every task list (the empty one included) and every concurrency >= 1,
\* if every download ends then downloadConcurrently eventually returns, with the
\* job queue closed, every worker exited and the results channel closed.
C3_EventuallyReturns == <>Terminated

\* The engine has wound down after downloading several tasks.
C3_Witness == Terminated /\ Len(mappings) >= 2 /\ completed = Len(mappings)

\* The error downloadFileToDir returned for task t.
ReturnedError(t) == fetched[t][Len(fetched[t])].err

\* C4: in the returned summary SuccessCount is the number of submitted tasks
\* whose download returned no error, FailureCount the number whose download
\* returned an error, and they add up to len(mappings).
C4_ExactCounts ==
  mainpc = "returned" =>
    /\ \A t \in Tasks : Len(fetched[t]) > 0
    /\ successCount = Cardinality({t \in Tasks : ReturnedError(t) = NoError})
    /\ failureCount = Cardinality({t \in Tasks : ReturnedError(t) # NoError})
    /\ successCount + failureCount = Len(mappings)

\* The engine has returned a summary counting a success and a failure.
C4_Witness == mainpc = "returned" /\ successCount >= 1 /\ failureCount >= 1

\* The tasks a worker has received and not yet reported.
InProgress == {t \in Tasks : taken[t] > reported[t]}

\* C5: at every moment the number of downloads in progress (tasks received by
\* a worker whose result is not yet sent) is at most concurrency.
C5_BoundedParallelism ==
  mainpc # "idle" => Cardinality(InProgress) <= concurrency

\* More tasks than workers, and every worker busy.
C5_Witness ==
  /\ Len(mappings) > concurrency
  /\ Cardinality(InProgress) = concurrency

Decided ==
  UNION {{<<t, k>> : k \in {j \in 1..Len(fetched[t]) : fetched[t][j].err # Pending}} :
           t \in Tasks}

FailureCauses ==
  {"failed to download", "bad status", "failed to create file", "failed to save file"}

\* C10 as stated: a download succeeds if and only if the response status is in
\* the 2xx class and the whole body reached the destination file; everything
\* else is a failure with a cause.
C10_SuccessIff2xx ==
  \A d \in Decided :
    LET m == fetched[d[1]][d[2]]
    IN /\ (m.err = NoError) <=> (m.net /\ In2xx(m.status) /\ m.created /\ m.copied)
       /\ m.err # NoError => m.err \in FailureCauses

\* C10, amended: a download succeeds if and only if the response status is
\* exactly 200 and the whole body reached the destination file; every other
\* status (204 included), a transport error, a file-creation error and a
\* body-copy error each give a failure with a cause, which the result carries.
C10_SuccessIff200 ==
  /\ \A d \in Decided :
       LET m == fetched[d[1]][d[2]]
       IN /\ (m.err = NoError) <=> (m.net /\ m.status = 200 /\ m.created /\ m.copied)
          /\ m.err # NoError => m.err \in FailureCauses
          /\ ~m.net => m.err = "failed to download"
          /\ (m.net /\ m.status # 200) => m.err = "bad status"
  /\ \A k \in 1..Len(received) :
       \E t \in Tasks :
         /\ received[k].URL = mappings[t].URL
         /\ Len(fetched[t]) > 0
         /\ received[k].Error = ReturnedError(t)

\* A 204 response whose body could have been stored was reported as a failure,
\* and a 200 response as a success.
C10_Witness ==
  /\ \E k \in 1..Len(received) :
       \E t \in Tasks :
         /\ received[k].URL = mappings[t].URL
         /\ received[k].Error = "bad status"
         /\ fetched[t][1].status = 204 /\ fetched[t][1].copied
  /\ \E k \in 1..Len(received) : received[k].Error = NoError

\* A worker that leaves the send of a result is back at the head of its loop.
WorkerGoesOn ==
  \A w \in DOMAIN wpc :
    (w \in DOMAIN wpc' /\ wpc[w] = "send" /\ wpc'[w] # "send")
      => wpc'[w] \in {"recv", "panic"}

FailedTasks == {t \in Tasks : Len(fetched[t]) > 0 /\ ReturnedError(t) \notin {NoError, Pending}}

\* What a failed download leaves intact: no task is attempted twice, no worker
\* has stopped before the job queue is closed and empty, and on return every
\* task has been attempted once and reported once and the failures are counted.
FailureContained ==
  /\ \A t \in Tasks : taken[t] <= 1 /\ Len(fetched[t]) <= 1 /\ reported[t] <= 1
  /\ \A w \in DOMAIN wpc :
       /\ wpc[w] # "panic"
       /\ wpc[w] = "exited" => (jobsClosed /\ jobs = <<>>)
  /\ mainpc = "returned" =>
       /\ \A t \in Tasks : Len(fetched[t]) = 1 /\ reported[t] = 1
       /\ failureCount = Cardinality(FailedTasks)
       /\ \A t \in FailedTasks :
            \A k \in ReceivedFor(t) : received[k].Error = ReturnedError(t)

\* C11: a failed download is recorded as one failure outcome and does not stop
\* the engine: every other task is still attempted exactly once and reported,
\* the worker that saw the failure goes on to further tasks, and the failed
\* task is never attempted again.
C11_FailureIsolated == []FailureContained /\ [][WorkerGoesOn]_vars

\* The only worker reported a 404 failure for the first task it took and then
\* downloaded the second one.
C11_Witness ==
  /\ mainpc = "returned"
  /\ concurrency = 1
  /\ Len(received) = 2
  /\ received[1].Error = "bad status"
  /\ received[2].Error = NoError
  /\ \E t \in Tasks : fetched[t][1].status = 404

\* The destination path of task t.
DestinationOf(t) == ArchivePath(FilenameOf(mappings[t].URL))

Succeeded(result) == result.Error = NoError

\* The destination paths of the successful results, in the order received.
SuccessPaths ==
  LET ok == SelectSeq(received, Succeeded)
  IN [k \in 1..Len(ok) |-> ArchivePath(FilenameOf(ok[k].URL))]

SuccessfulTasks == {t \in Tasks : Len(fetched[t]) > 0 /\ ReturnedError(t) = NoError}

\* C12: in the returned summary Files lists one destination path per successful
\* task in the order the results were received, as many as SuccessCount, and
\* FilePackages maps the destination path of every successful task to exactly
\* that task's owner list.
C12_FilesAndOwners ==
  mainpc = "returned" =>
    /\ downloadedFiles = SuccessPaths
    /\ Len(downloadedFiles) = successCount
    /\ \A t \in SuccessfulTasks :
         /\ DestinationOf(t) \in DOMAIN filePackages
         /\ filePackages[DestinationOf(t)] = mappings[t].APKPackages

EndsInTarballSuffix(name) ==
  \E suffix \in TarballSuffixes : HasSuffix(ToLower(name), suffix)

\* C13: for every URL the resolver accepts, the filename getFilenameFromURL
\* derives ends, case-insensitively, in .tar.gz, .tgz, .tar.xz or .tar.bz2, so
\* extractArchive's format selection does not reject the downloaded file as an
\* unsupported format.
C13_DerivedNamesRecognized ==
  \A i \in 1..Len(mappings) :
    /\ EndsInTarballSuffix(FilenameOf(mappings[i].URL))
    /\ ArchiveFormat(ArchivePath(FilenameOf(mappings[i].URL))) # "unsupported"

\* The workers that have the destination file open for writing.
Writing == {w \in DOMAIN wpc : wpc[w] = "copy"}

\* C17: the destination filenames derived from the URLs of distinct tasks are
\* pairwise distinct, so no two workers have the same file open for writing at
\* the same time and no successful download is overwritten or truncated by
\* another task.
C17_DistinctDestinations ==
  /\ \A t1, t2 \in Tasks : t1 # t2 => DestinationOf(t1) # DestinationOf(t2)
  /\ \A w1, w2 \in Writing :
       w1 # w2 => FilenameOf(wjob[w1].URL) # FilenameOf(wjob[w2].URL)
  /\ \A t \in SuccessfulTasks :
       /\ FilenameOf(mappings[t].URL) \in DOMAIN disk
       /\ disk[FilenameOf(mappings[t].URL)].writer = mappings[t].URL

\* The jobs put on the queue so far.
Enqueued == IF spc = "unstarted" THEN 0 ELSE sidx - 1

\* C20: the job queue receives exactly len(mappings) entries and is closed
\* once, after the last of them; the results channel is closed once, and only
\* after every worker has sent its last result and exited; no goroutine sends
\* on a closed channel, and no send finds its channel full.
C20_ChannelProtocol ==
  /\ Enqueued <= Len(mappings)
  /\ Enqueued = Len(jobs) + Cardinality({t \in Tasks : taken[t] > 0})
  /\ jobsClosed <=> spc = "done"
  /\ jobsClosed => Enqueued = Len(mappings)
  /\ resultsClosed <=> cpc = "done"
  /\ resultsClosed =>
       /\ jobsClosed
       /\ wg = 0
       /\ \A w \in DOMAIN wpc : wpc[w] = "exited"
       /\ \A t \in Tasks : taken[t] = 1 /\ reported[t] = 1
  /\ \A w \in DOMAIN wpc :
       /\ wpc[w] # "panic"
       /\ wpc[w] = "send" => (~resultsClosed /\ CanSend(results, ChanCap(mappings)))
  /\ (spc = "sending" /\ ~SenderLoopOver(sidx, Len(mappings))) =>
       (~jobsClosed /\ CanSend(jobs, ChanCap(mappings)))

\* Both channels are closed, and the results channel was filled to its
\* capacity by a single worker before the aggregator took anything from it.
C20_Witness ==
  /\ jobsClosed
  /\ resultsClosed
  /\ Len(mappings) >= 2
  /\ concurrency = 1
  /\ Len(results) = Len(mappings)

(***************************************************************************)
(* Claims about the extractor.                                             *)
(***************************************************************************)
\* The elements of the normalized path, without the "." of an empty result.
NormalElements(path) == CleanElements(Elements(path), 1, IsRooted(path), <<>>)

\* path is a descendant of root: the normalized root is a proper prefix of
\* the normalized path, and what follows the root does not climb out of it
\* again with a "..".
IsDescendant(path, root) ==
  LET r == NormalElements(root)
      t == NormalElements(path)
  IN /\ IsRooted(path) = IsRooted(root)
     /\ Len(t) > Len(r)
     /\ SubSeq(t, 1, Len(r)) = r
     /\ t[Len(r) + 1] # S_dotdot

ActedOn == handled \in {"extracted", "error", "linkfailed"}

\* C2: for every archive entry extractArchive acts on, the joined and
\* normalized target path is a descendant of the normalized extraction root,
\* and nothing is created, written or linked at a path outside the root,
\* whatever the entry's name.
C2_TargetsInsideRoot ==
  /\ ActedOn => IsDescendant(TargetPath(header), extractDir)
  /\ \A path \in lastOps : IsDescendant(path, extractDir)

\* The entry's name is an absolute path, or climbs out with "../" segments.
EscapingName(name) ==
  \/ IsRooted(name)
  \/ /\ NormalElements(name) # <<>>
     /\ NormalElements(name)[1] = S_dotdot

\* C6: an archive entry whose name escapes via "../" segments or is an
\* absolute path is skipped: nothing is created or modified for it, and the
\* loop goes on to the other entries of the archive.
C6_EscapingEntriesSkipped ==
  (header # NoHeader /\ EscapingName(header.Name)) =>
    /\ handled = "skipped"
    /\ lastOps = {}
    /\ epc = "entries"

\* C16: a per-entry error (an entry rejected by the containment check, or a
\* symlink whose creation fails) abandons only that entry: the loop is back at
\* its head for the next entry, and the archive fails only for another reason
\* (an unreadable archive or header, or a directory or file that cannot be
\* made), so that with entries abandoned and nothing else wrong it returns nil.
C16_EntryErrorsNotFatal ==
  /\ handled \in {"skipped", "linkfailed"} => (epc = "entries" /\ abandoned >= 1)
  /\ handled = "skipped" => lastOps = {}
  /\ epc = "failed" => handled \in {"none", "error"}
  /\ abandoned <= nEntries

\* The first entry of the archive was abandoned and the second one has been
\* extracted.
C16_Witness ==
  /\ epc = "entries"
  /\ nEntries = 2
  /\ abandoned = 1
  /\ handled = "extracted"
  /\ lastOps # {}

\* The normalized path is the normalized root itself.
IsRoot(path, root) ==
  /\ IsRooted(path) = IsRooted(root)
  /\ NormalElements(path) = NormalElements(root)

\* C18: the containment check skips an entry only if its normalized target
\* path is neither the normalized extraction root nor a descendant of it; an
\* entry at the root (such as "./") or beneath it is processed, for every root
\* the caller can pass.
C18_SkipsOnlyOutside ==
  handled = "skipped" =>
    /\ ~IsRoot(TargetPath(header), extractDir)
    /\ ~IsDescendant(TargetPath(header), extractDir)

\* Where a symbolic link of the extraction leads: an absolute target as it
\* is, a relative one from the directory that holds the link.
LinkDestination(at, link) ==
  IF IsRooted(link) THEN Clean(link) ELSE FilepathJoin(FilepathDir(at), link)

\* The place on disk a path names once the symbolic links the extraction has
\* made are followed in every element but the last.
RECURSIVE Physical(_, _, _, _)
Physical(f, elems, i, cur) ==
  IF i > Len(elems) THEN cur
  ELSE LET next == IF cur = <<>> THEN elems[i]
                   ELSE IF cur = S_slash THEN S_slash \o elems[i]
                   ELSE cur \o S_slash \o elems[i]
       IN IF i < Len(elems) /\ next \in DOMAIN f /\ f[next].kind = "symlink"
          THEN Physical(f, elems, i + 1, LinkDestination(next, f[next].link))
          ELSE Physical(f, elems, i + 1, next)

PhysicalPath(path) ==
  Physical(fs, Elements(path), 1, IF IsRooted(path) THEN S_slash ELSE <<>>)

\* C19: after any sequence of entries, a symlink entry followed by entries
\* whose names pass through it included, every file or directory the
\* extraction created or wrote lies inside the extraction root once the
\* symlinks it made are resolved.
C19_PhysicallyInsideRoot ==
  \A path \in lastOps : IsDescendant(PhysicalPath(path), extractDir)

(***************************************************************************)
(* Claims about the whole run.                                             *)
(***************************************************************************)
Extracting == epc \in {"open", "entries"}

Downloading == \E w \in DOMAIN wpc : wpc[w] \in {"open", "copy", "send"}

\* C15: no archive extraction begins before downloadConcurrently has returned
\* with every outcome collected, no extraction runs while a download does, and
\* the archives are extracted one at a time in the order of Summary.Files.
C15_ExtractAfterDownloads ==
  /\ (xpc # "idle" \/ Extracting) =>
       /\ mainpc = "returned"
       /\ Len(received) = Len(mappings)
       /\ ~Downloading
       /\ InProgress = {}
  /\ xpc # "idle" =>
       /\ Len(began) <= Len(downloadedFiles)
       /\ began = SubSeq(downloadedFiles, 1, Len(began))
       /\ Extracting => (xpc = "archive" /\ Len(began) = xidx /\ archiveFile = began[xidx])
       /\ xpc = "loop" => Len(began) = xidx - 1
       /\ xpc = "done" => began = downloadedFiles

\* The second of two downloaded archives is being extracted, after the first.
C15_Witness ==
  /\ Extracting
  /\ epc = "entries"
  /\ Len(downloadedFiles) = 2
  /\ xidx = 2
  /\ began = downloadedFiles
  /\ xSuccessCount + xFailureCount = 1

====
